---- MODULE Spec2Model ----
(***************************************************************************)
(* A model of the FCS decoder of src/decoder.go: the TEXT segment scanner  *)
(* and the metadata schema of decodeText, the DATA segment decoder         *)
(* decodeData with decodeIntData and applyTransform, and the Decoder with  *)
(* decodeHeader, DecodeMetadata and Decode on a forward-only stream.       *)
(*                                                                         *)
(* Strings are sequences of one-character strings, so that scanning,       *)
(* trimming, case conversion and number parsing are computed character by  *)
(* character as the Go code does.                                          *)
(***************************************************************************)
EXTENDS Integers, Sequences, FiniteSets, TLC

VARIABLES
    text,       \* the bytes the limited TEXT reader offers (io.LimitReader)
    pos,        \* number of bytes of text consumed through the bufio.Reader b
    delimiter,  \* decodeText: delimiter
    keyword,    \* decodeText: keyword, as returned by b.ReadString
    value,      \* decodeText: value, accumulated by the inner loop
    keywords,   \* Metadata.keywords
    kv,         \* Metadata.kv
    m,          \* the typed fields of Metadata
    pi,         \* decodeText: the parameter index i of the loop at line 395
    dataSeg,    \* the bytes the limited DATA reader offers
    dpos,       \* number of bytes of dataSeg consumed
    data,       \* decodeData: data
    hostOrder,  \* byte order of the machine the build runs on
    pc,         \* position in the code
    retM,       \* the *Metadata result: TRUE when non-nil
    retData,    \* the []float64 result: TRUE when non-nil
    err,        \* the error result; NoErr is nil
    stream,     \* the bytes of the io.Reader the Decoder was made for
    dec,        \* the Decoder: bytes of stream consumed, header, metadata
    op,         \* the exported method being run, with what it read so far
    calls       \* the calls that have returned, in order, with their results

vars == <<text, pos, delimiter, keyword, value, keywords, kv, m, pi,
          dataSeg, dpos, data, hostOrder, pc, retM, retData, err,
          stream, dec, op, calls>>

\* ------------------------------------------------------------------ bounds

\* Longest TEXT segment the scanner is run on.
MaxTextLen == 7

\* ------------------------------------------------------------- strings

NoErr == <<>>

Min(S) == CHOOSE x \in S : \A y \in S : x <= y

RECURSIVE ReverseSeq(_)
ReverseSeq(s) == IF s = <<>> THEN <<>> ELSE Append(ReverseSeq(Tail(s)), Head(s))

LowerLetters == <<"a","b","c","d","e","f","g","h","i","j","k","l","m",
                  "n","o","p","q","r","s","t","u","v","w","x","y","z">>
UpperLetters == <<"A","B","C","D","E","F","G","H","I","J","K","L","M",
                  "N","O","P","Q","R","S","T","U","V","W","X","Y","Z">>

\* unicode.ToUpper on one ASCII character
UpperChar(c) ==
    IF \E i \in 1..26 : LowerLetters[i] = c
    THEN UpperLetters[CHOOSE i \in 1..26 : LowerLetters[i] = c]
    ELSE c

\* strings.ToUpper
ToUpper(s) == [i \in 1..Len(s) |-> UpperChar(s[i])]

\* unicode.IsSpace on one ASCII character
IsSpace(c) == c \in {" ", "\t", "\n", "\r"}

\* strings.TrimSpace
TrimSpace(s) ==
    LET keep == {i \in 1..Len(s) : ~IsSpace(s[i])}
    IN  IF keep = {} THEN <<>>
        ELSE SubSeq(s, Min(keep), CHOOSE i \in keep : \A j \in keep : j <= i)

\* ------------------------------------------------- bufio.Reader over text

\* Index of the first delim after position p of s, or 0.
NextDelim(s, p, delim) ==
    LET hits == {i \in (p+1)..Len(s) : s[i] = delim}
    IN  IF hits = {} THEN 0 ELSE Min(hits)

\* b.ReadString(delim) at position p: the bytes up to and including the first
\* delim with a nil error, or the rest of the input with io.EOF.
ReadString(s, p, delim) ==
    LET i == NextDelim(s, p, delim)
    IN  IF i = 0
        THEN [str |-> SubSeq(s, p+1, Len(s)), pos |-> Len(s), eof |-> TRUE]
        ELSE [str |-> SubSeq(s, p+1, i), pos |-> i, eof |-> FALSE]

\* --------------------------------------------------------------- Decoder

\* Lines 160-164, NewDecoder: nothing read, no header, no metadata.  A nil
\* pointer is <<>>.
NewDecoder == [off |-> 0, header |-> <<>>, metadata |-> <<>>]

\* No exported method is running.
NoCall == [name |-> "none", start |-> 0, n |-> 0, at |-> 0]

\* The scanner, the schema and the DATA decoder run on their own, on a
\* segment or a dictionary given to them, without a Decoder.
NoDecoder ==
    /\ stream = <<>>
    /\ dec = NewDecoder
    /\ op = NoCall
    /\ calls = <<>>

\* ------------------------------------------------------------ decodeText

\* Variables the TEXT scanner leaves alone.
ScanFrame ==
    UNCHANGED <<text, m, pi, dataSeg, dpos, data, hostOrder,
                stream, dec, op, calls>>

\* Lines 290-300: the first byte is the delimiter; an empty segment returns
\* (nil, io.EOF).
ScanDelimiter ==
    /\ pc = "delimiter"
    /\ IF Len(text) = 0
       THEN /\ pc' = "returned"
            /\ err' = <<"EOF">>
            /\ UNCHANGED <<pos, delimiter, retM>>
       ELSE /\ delimiter' = text[1]
            /\ pos' = 1
            /\ retM' = TRUE
            /\ pc' = "keyword"
            /\ UNCHANGED err
    /\ UNCHANGED <<keyword, value, keywords, kv, retData>>
    /\ ScanFrame

\* Lines 305-311: read a keyword; io.EOF (no delimiter in what is left) ends
\* the loop, and the bytes ReadString returned with it are dropped.
ScanKeyword ==
    /\ pc = "keyword"
    /\ LET r == ReadString(text, pos, delimiter)
       IN  /\ pos' = r.pos
           /\ IF r.eof
              THEN pc' = "remaining" /\ UNCHANGED keyword
              ELSE pc' = "value" /\ keyword' = r.str
    /\ value' = <<>>
    /\ UNCHANGED <<delimiter, keywords, kv, retM, retData, err>>
    /\ ScanFrame

\* A value loop that appends the escaping delimiter as well.
RECURSIVE ReadValueKeepingEscape(_, _, _, _)
ReadValueKeepingEscape(s, p, delim, acc) ==
    LET r == ReadString(s, p, delim)
    IN  IF r.eof
        THEN [value |-> acc \o r.str, pos |-> r.pos, eof |-> TRUE]
        ELSE IF r.pos = Len(s) \/ s[r.pos + 1] # delim
             THEN [value |-> acc \o r.str, pos |-> r.pos, eof |-> FALSE]
             ELSE ReadValueKeepingEscape(s, r.pos + 1, delim,
                                         acc \o r.str \o <<delim>>)

\* Lines 315-342, the value loop: ReadString must find a delimiter (io.EOF is
\* ErrInvalidText); the byte after it decides whether that delimiter was an
\* escape (read on, the second delimiter is consumed and not appended) or the
\* end of the value (the byte is unread).  acc is the value read so far.
RECURSIVE ReadValue(_, _, _, _)
ReadValue(s, p, delim, acc) ==
    LET r == ReadString(s, p, delim)
    IN  IF r.eof
        THEN [value |-> acc \o r.str, pos |-> r.pos, eof |-> TRUE]
        ELSE IF r.pos = Len(s)
             THEN [value |-> acc \o r.str, pos |-> r.pos, eof |-> FALSE]
             ELSE IF s[r.pos + 1] # delim
                  THEN [value |-> acc \o r.str, pos |-> r.pos, eof |-> FALSE]
                  ELSE ReadValue(s, r.pos + 1, delim, acc \o r.str)

ScanValue ==
    /\ pc = "value"
    /\ LET r == ReadValue(text, pos, delimiter, <<>>)
       IN  /\ pos' = r.pos
           /\ IF r.eof
              THEN /\ pc' = "returned"
                   /\ err' = <<"ErrInvalidText">>
                   /\ retM' = FALSE
                   /\ UNCHANGED value
              ELSE /\ value' = r.value
                   /\ pc' = "store"
                   /\ UNCHANGED <<err, retM>>
    /\ UNCHANGED <<delimiter, keyword, keywords, kv, retData>>
    /\ ScanFrame

\* Line 355: strings.ToUpper(keyword) is called and its result is discarded.
StoredKeyword(k) == k

\* Lines 347-358: strip the delimiters and store the pair.
StorePair ==
    /\ pc = "store"
    /\ IF keyword[Len(keyword)] # delimiter \/ value[Len(value)] # delimiter
       THEN /\ pc' = "returned"
            /\ err' = <<"ErrInvalidText">>
            /\ retM' = FALSE
            /\ UNCHANGED <<keywords, kv>>
       ELSE LET k == StoredKeyword(SubSeq(keyword, 1, Len(keyword) - 1))
                v == SubSeq(value, 1, Len(value) - 1)
            IN  /\ keywords' = Append(keywords, k)
                /\ kv' = [x \in DOMAIN kv \cup {k} |->
                            IF x = k THEN TrimSpace(v) ELSE kv[x]]
                /\ pc' = "keyword"
                /\ UNCHANGED <<err, retM>>
    /\ UNCHANGED <<pos, delimiter, keyword, value, retData>>
    /\ ScanFrame

\* Bytes left in the limited reader r once the scan loop has ended.  The loop
\* ends only when b has met io.EOF, which b passes on from r.
BytesLeftInText == Len(text) - pos

\* Lines 364-367: the whole segment must have been read.
ScanRemaining ==
    /\ pc = "remaining"
    /\ IF BytesLeftInText > 0
       THEN pc' = "returned" /\ err' = <<"bytes left after TEXT">> /\ retM' = FALSE
       ELSE pc' = "fields" /\ UNCHANGED <<err, retM>>
    /\ UNCHANGED <<pos, delimiter, keyword, value, keywords, kv, retData>>
    /\ ScanFrame

\* --------------------------------------------------------------- strconv

Digits == <<"0","1","2","3","4","5","6","7","8","9">>

IsDigit(c) == \E i \in 1..10 : Digits[i] = c

DigitVal(c) == (CHOOSE i \in 1..10 : Digits[i] = c) - 1

AllDigits(s) == s # <<>> /\ \A i \in 1..Len(s) : IsDigit(s[i])

RECURSIVE DecimalVal(_)
DecimalVal(s) ==
    IF s = <<>> THEN 0
    ELSE 10 * DecimalVal(SubSeq(s, 1, Len(s) - 1)) + DigitVal(s[Len(s)])

RECURSIVE Pow10(_)
Pow10(n) == IF n = 0 THEN 1 ELSE 10 * Pow10(n - 1)

\* strconv.Atoi: an optional sign and one or more decimal digits.
Atoi(s) ==
    LET signed == s # <<>> /\ s[1] \in {"+", "-"}
        body == IF signed THEN Tail(s) ELSE s
    IN  IF AllDigits(body)
        THEN [ok |-> TRUE,
              val |-> IF signed /\ s[1] = "-" THEN 0 - DecimalVal(body)
                      ELSE DecimalVal(body)]
        ELSE [ok |-> FALSE, val |-> 0]

\* strconv.Itoa of a natural number
RECURSIVE Itoa(_)
Itoa(n) == IF n < 10 THEN <<Digits[n + 1]>>
           ELSE Append(Itoa(n \div 10), Digits[(n % 10) + 1])

\* strconv.ParseFloat on decimal numerals without exponent: an optional sign,
\* digits, and an optional fraction.  The value is the rational num/den.
ParseFloat(s) ==
    LET signed == s # <<>> /\ s[1] \in {"+", "-"}
        body == IF signed THEN Tail(s) ELSE s
        dots == {i \in 1..Len(body) : body[i] = "."}
        dot == IF dots = {} THEN Len(body) + 1 ELSE Min(dots)
        ip == SubSeq(body, 1, dot - 1)
        fp == SubSeq(body, dot + 1, Len(body))
        wellFormed == /\ Cardinality(dots) <= 1
                      /\ ip \o fp # <<>>
                      /\ \A i \in 1..Len(ip) : IsDigit(ip[i])
                      /\ \A i \in 1..Len(fp) : IsDigit(fp[i])
        mag == DecimalVal(ip \o fp)
    IN  IF wellFormed
        THEN [ok |-> TRUE,
              val |-> [num |-> IF signed /\ s[1] = "-" THEN 0 - mag ELSE mag,
                       den |-> Pow10(Len(fp))]]
        ELSE [ok |-> FALSE, val |-> [num |-> 0, den |-> 1]]

\* strings.Split(s, ",")
RECURSIVE SplitComma(_)
SplitComma(s) ==
    LET i == NextDelim(s, 0, ",")
    IN  IF i = 0 THEN <<s>>
        ELSE <<SubSeq(s, 1, i - 1)>> \o SplitComma(SubSeq(s, i + 1, Len(s)))

\* Replace the first occurrence of old in s by new: strings.Replace(s, old,
\* new, 1), and the one verb of fmt.Sprintf("$P%dB", i).
ReplaceFirst(s, old, new) ==
    LET at == {i \in 1..(Len(s) - Len(old) + 1) :
                  SubSeq(s, i, i + Len(old) - 1) = old}
    IN  IF at = {} THEN s
        ELSE SubSeq(s, 1, Min(at) - 1) \o new
             \o SubSeq(s, Min(at) + Len(old), Len(s))

\* ------------------------------------------------------------------ time

\* A time.Time in UTC: the day counted from 1 January of year 1 (negative in
\* year 0), the second of the day and the nanosecond of the second.
ZeroTime == [day |-> 0, sec |-> 0, nsec |-> 0]

\* t.IsZero(), a.Before(b) and t.AddDate(0, 0, days)
TimeIsZero(t) == t = ZeroTime

Before(a, b) ==
    \/ a.day < b.day
    \/ a.day = b.day /\ a.sec < b.sec
    \/ a.day = b.day /\ a.sec = b.sec /\ a.nsec < b.nsec

AddDays(t, days) == [t EXCEPT !.day = @ + days]

MonthNames == << <<"J","A","N">>, <<"F","E","B">>, <<"M","A","R">>,
                 <<"A","P","R">>, <<"M","A","Y">>, <<"J","U","N">>,
                 <<"J","U","L">>, <<"A","U","G">>, <<"S","E","P">>,
                 <<"O","C","T">>, <<"N","O","V">>, <<"D","E","C">> >>

IsLeap(y) == y % 4 = 0 /\ (y % 100 # 0 \/ y % 400 = 0)

DaysIn(mo, y) ==
    IF mo = 2 THEN (IF IsLeap(y) THEN 29 ELSE 28)
    ELSE IF mo \in {4, 6, 9, 11} THEN 30 ELSE 31

RECURSIVE DaysBeforeMonth(_, _)
DaysBeforeMonth(mo, y) ==
    IF mo = 1 THEN 0 ELSE DaysBeforeMonth(mo - 1, y) + DaysIn(mo - 1, y)

\* Days from 1 January of year 1 to the given date.
DayNumber(y, mo, d) ==
    365 * (y - 1) + ((y - 1) \div 4) - ((y - 1) \div 100) + ((y - 1) \div 400)
    + DaysBeforeMonth(mo, y) + (d - 1)

\* time.Date(y, mo, d, hh, mm, ss, ns, time.UTC): values out of range carry
\* over into the next unit.
TimeDate(y, mo, d, hh, mm, ss, ns) ==
    LET total == hh * 3600 + mm * 60 + ss + (ns \div 1000000000)
    IN  [day |-> DayNumber(y, mo, d) + (total \div 86400),
         sec |-> total % 86400,
         nsec |-> ns % 1000000000]

\* strings.Split(s, c) for a separator of one character
RECURSIVE Split(_, _)
Split(s, c) ==
    LET i == NextDelim(s, 0, c)
    IN  IF i = 0 THEN <<s>>
        ELSE <<SubSeq(s, 1, i - 1)>> \o Split(SubSeq(s, i + 1, Len(s)), c)

\* One or two decimal digits.
Digits12(x) == Len(x) \in {1, 2} /\ AllDigits(x)

\* parseNanoseconds: the digits after the point as nanoseconds.
Nanos(digs) ==
    IF Len(digs) >= 9 THEN DecimalVal(SubSeq(digs, 1, 9))
    ELSE DecimalVal(digs) * Pow10(9 - Len(digs))

\* The one element of a set of one element.
Only(S) == CHOOSE x \in S : TRUE

\* The number written by the digits x; 0 when x is not made of digits.
Num(x) == IF AllDigits(x) THEN DecimalVal(x) ELSE 0

\* The number of the month named x, in any case; 0 when x names no month.
MonthOf(x) ==
    Only({IF \E i \in 1..12 : MonthNames[i] = u
          THEN CHOOSE i \in 1..12 : MonthNames[i] = u ELSE 0 :
             u \in {ToUpper(x)}})

\* The layout "02-Jan-2006" on the whole of s: a day of two digits, the name
\* of a month, a year of four digits, and a day that the month has.
DatePart(s) ==
    Only({[ok |-> /\ Len(f) = 5
                  /\ Len(f[1]) = 2 /\ AllDigits(f[1])
                  /\ Len(f[2]) = 3 /\ mo # 0
                  /\ Len(f[3]) = 4 /\ AllDigits(f[3])
                  /\ d >= 1 /\ d <= DaysIn(mo, y),
           y |-> y, mo |-> mo, d |-> d] :
            <<f, d, mo, y>> \in
                {<<g, Num(g[1]), MonthOf(g[2]), Num(g[3])>> :
                    g \in {Split(s, "-") \o << <<>>, <<>> >>}}})

\* The layout "15:04:05" (frac2 false) or "15:04:05.00" (frac2 true) on the
\* whole of s: an hour of one or two digits, minutes and seconds of two.
\* Without a fraction in the layout, a point and digits after the seconds
\* are taken as the fraction of the second; with it, there are two digits.
ClockPart(s, frac2) ==
    Only({[ok |-> /\ Len(f) = 5
                  /\ Digits12(f[1]) /\ hh < 24
                  /\ Len(f[2]) = 2 /\ AllDigits(f[2]) /\ mm < 60
                  /\ Len(f[3]) >= 2 /\ AllDigits(sec) /\ ss < 60
                  /\ IF frac2 THEN Len(frac) = 3 /\ frac[1] = "." /\ AllDigits(Tail(frac))
                     ELSE frac = <<>> \/ (frac[1] = "." /\ AllDigits(Tail(frac))),
           hh |-> hh, mm |-> mm, ss |-> ss,
           ns |-> IF Len(frac) < 2 THEN 0 ELSE Nanos(Tail(frac))] :
            <<f, sec, frac, hh, mm, ss>> \in
                {<<g, SubSeq(g[3], 1, Min({2, Len(g[3])})),
                   SubSeq(g[3], 3, Len(g[3])),
                   Num(g[1]), Num(g[2]),
                   Num(SubSeq(g[3], 1, Min({2, Len(g[3])})))>> :
                    g \in {Split(s, ":") \o << <<>>, <<>> >>}}})

\* Lines 557-576: hh:mm:ss:tt with one or two digits each, tt in sixtieths
\* of a second, as a time of 1 January of year 1.  The nanoseconds are
\* int(float64(tt)/60*1e9), taken here as the integer part of the exact
\* quotient.
LegacyTime(s) ==
    Only({IF Len(f) = 4 /\ \A i \in 1..4 : Digits12(f[i])
          THEN [ok |-> TRUE,
                t |-> TimeDate(1, 1, 1, Num(f[1]), Num(f[2]), Num(f[3]),
                               tt * 16666666 + ((2 * tt) \div 3))]
          ELSE [ok |-> FALSE, t |-> ZeroTime] :
             <<f, tt>> \in {<<g, Num(g[Len(g)])>> : g \in {Split(s, ":")}}})

\* time.ParseInLocation(layout, s, time.UTC) for the five layouts of lines
\* 528-550.  A value without a date is 1 January of year 0.
ParseInLocation(layout, s) ==
    LET timed == layout \in {"15:04:05", "15:04:05.00"}
        dated == layout = "02-Jan-2006"
        frac2 == layout \in {"15:04:05.00", "02-Jan-2006 15:04:05.00"}
    IN  Only({IF (timed \/ dp.ok) /\ (dated \/ cp.ok) /\ (timed \/ dated \/ sp # 0)
              THEN [ok |-> TRUE,
                    t |-> TimeDate(IF timed THEN 0 ELSE dp.y,
                                   IF timed THEN 1 ELSE dp.mo,
                                   IF timed THEN 1 ELSE dp.d,
                                   IF dated THEN 0 ELSE cp.hh,
                                   IF dated THEN 0 ELSE cp.mm,
                                   IF dated THEN 0 ELSE cp.ss,
                                   IF dated THEN 0 ELSE cp.ns)]
              ELSE [ok |-> FALSE, t |-> ZeroTime] :
                 <<sp, dp, cp>> \in
                    {<<i, DatePart(IF dated \/ i = 0 THEN s ELSE SubSeq(s, 1, i - 1)),
                       ClockPart(IF timed THEN s ELSE SubSeq(s, i + 1, Len(s)), frac2)>> :
                        i \in {NextDelim(s, 0, " ")}}})

TimeLayouts == <<"02-Jan-2006", "15:04:05", "15:04:05.00",
                 "02-Jan-2006 15:04:05", "02-Jan-2006 15:04:05.00">>

\* Lines 526-580: the first layout that parses s gives the time; then the
\* form hh:mm:ss:tt; else the value is not a time.
ParseTime(s) ==
    Only({IF \E i \in 1..Len(r) : r[i].ok
          THEN r[Min({i \in 1..Len(r) : r[i].ok})]
          ELSE LegacyTime(s) :
             r \in {[i \in 1..Len(TimeLayouts) |-> ParseInLocation(TimeLayouts[i], s)]}})

\* ------------------------------------------------------ keywords and tags

K_NEXTDATA == <<"$","N","E","X","T","D","A","T","A">>
K_BYTEORD  == <<"$","B","Y","T","E","O","R","D">>
K_DATATYPE == <<"$","D","A","T","A","T","Y","P","E">>
K_MODE     == <<"$","M","O","D","E">>
K_TOT      == <<"$","T","O","T">>
K_PAR      == <<"$","P","A","R">>
K_DATE     == <<"$","D","A","T","E">>
K_BTIM     == <<"$","B","T","I","M">>
K_ETIM     == <<"$","E","T","I","M">>

\* Lines 29-42
requiredKeywords == <<K_BYTEORD, K_DATATYPE, K_MODE, K_NEXTDATA, K_PAR, K_TOT>>

\* Lines 46-51
requiredParameterKeywords ==
    << <<"$","P","%","d","B">>, <<"$","P","%","d","E">>,
       <<"$","P","%","d","N">>, <<"$","P","%","d","R">> >>

\* fmt.Sprintf(keywordFmt, i), line 466
Sprintf(keywordFmt, i) == ReplaceFirst(keywordFmt, <<"%","d">>, Itoa(i))

S_LittleEndian == <<"L","i","t","t","l","e","E","n","d","i","a","n">>
S_BigEndian    == <<"B","i","g","E","n","d","i","a","n">>
S_1234 == <<"1",",","2",",","3",",","4">>
S_4321 == <<"4",",","3",",","2",",","1">>
S_NA == <<"N","A">>

\* The fields of Metadata that carry a keyword tag and that the properties
\* here read, in the order of the struct (lines 87-103); each with its
\* candidate keywords and its Go type.
MetadataFields ==
    << [name |-> "NextData",      keys |-> <<K_NEXTDATA>>, type |-> "int"],
       [name |-> "ByteOrder",     keys |-> <<K_BYTEORD>>,  type |-> "string"],
       [name |-> "DataType",      keys |-> <<K_DATATYPE>>, type |-> "string"],
       [name |-> "Mode",          keys |-> <<K_MODE>>,     type |-> "string"],
       [name |-> "NumEvents",     keys |-> <<K_TOT>>,      type |-> "int"],
       [name |-> "NumParameters", keys |-> <<K_PAR>>,      type |-> "int"],
       [name |-> "Date",          keys |-> <<K_DATE>>,     type |-> "time.Time"],
       [name |-> "BeginTime",     keys |-> <<K_BTIM>>,     type |-> "time.Time"],
       [name |-> "EndTime",       keys |-> <<K_ETIM>>,     type |-> "time.Time"] >>

\* The tagged fields of Parameter (lines 58-65) in the order of the struct.
ParameterFields ==
    << [name |-> "BitLength",         tag |-> <<"$","P","n","B">>, type |-> "int"],
       [name |-> "AmplificationType", tag |-> <<"$","P","n","E">>, type |-> "pair"],
       [name |-> "ShortName",         tag |-> <<"$","P","n","N">>, type |-> "string"],
       [name |-> "Range",             tag |-> <<"$","P","n","R">>, type |-> "int"],
       [name |-> "AmplifierGain",     tag |-> <<"$","P","n","G">>, type |-> "*float64"] >>

\* A *float64 is <<>> when nil and <<f>> when it points to f.
Nil == <<>>

Zero == [num |-> 0, den |-> 1]

\* The zero Metadata and the Parameter of line 396.
ZeroMetadata ==
    [NextData |-> 0, ByteOrder |-> <<>>, DataType |-> <<>>, Mode |-> <<>>,
     NumEvents |-> 0, NumParameters |-> 0, Parameters |-> <<>>,
     Date |-> ZeroTime, BeginTime |-> ZeroTime, EndTime |-> ZeroTime]

NewParameter(i) ==
    [ParameterID |-> i, BitLength |-> 0, AmplificationType |-> <<Zero, Zero>>,
     ShortName |-> <<>>, Range |-> 0, AmplifierGain |-> Nil]

\* Lines 478-587, scanValueToStructField: the new value of a field of the
\* given type holding old, or an error.  "NA" leaves a numeric field alone.
scanValueToStructField(val, type, old) ==
    CASE type = "string" -> [err |-> NoErr, val |-> val]
      [] type = "int" ->
            IF val = S_NA THEN [err |-> NoErr, val |-> old]
            ELSE IF Atoi(val).ok THEN [err |-> NoErr, val |-> Atoi(val).val]
            ELSE [err |-> <<"cannot parse as int", val>>, val |-> old]
      [] type = "*float64" ->
            IF val = S_NA THEN [err |-> NoErr, val |-> old]
            ELSE IF ParseFloat(val).ok
                 THEN [err |-> NoErr, val |-> <<ParseFloat(val).val>>]
            ELSE [err |-> <<"cannot parse as float64", val>>, val |-> old]
      [] type = "pair" ->
            LET strList == SplitComma(val)
            IN  IF Len(strList) # 2
                   \/ ~ParseFloat(TrimSpace(strList[1])).ok
                   \/ ~ParseFloat(TrimSpace(strList[2])).ok
                THEN [err |-> <<"cannot parse as [2]float64", val>>, val |-> old]
                ELSE [err |-> NoErr,
                      val |-> <<ParseFloat(TrimSpace(strList[1])).val,
                                ParseFloat(TrimSpace(strList[2])).val>>]
      [] type = "time.Time" ->
            Only({IF p.ok THEN [err |-> NoErr, val |-> p.t]
                  ELSE [err |-> <<"cannot parse as time.Time", val>>, val |-> old] :
                     p \in {ParseTime(val)}})

\* Lines 376-383: the value of the first candidate keyword present in d; the
\* empty string when none is.
RECURSIVE FirstPresent(_, _)
FirstPresent(d, keys) ==
    IF keys = <<>> THEN <<>>
    ELSE IF Head(keys) \in DOMAIN d THEN d[Head(keys)]
    ELSE FirstPresent(d, Tail(keys))

\* Lines 371-391: fill the tagged fields of md from d, from field number j on;
\* the first value that does not parse ends the loop with its error.
RECURSIVE FillFields(_, _, _)
FillFields(d, md, j) ==
    IF j > Len(MetadataFields) THEN [m |-> md, err |-> NoErr]
    ELSE LET f == MetadataFields[j]
             val == FirstPresent(d, f.keys)
         IN  IF val = <<>> THEN FillFields(d, md, j + 1)
             ELSE LET r == scanValueToStructField(val, f.type, md[f.name])
                  IN  IF r.err # NoErr THEN [m |-> md, err |-> r.err]
                      ELSE FillFields(d, [md EXCEPT ![f.name] = r.val], j + 1)

\* Line 411: the keyword of a Parameter field for parameter i.
ParameterKeyword(tag, i) == ReplaceFirst(tag, <<"n">>, Itoa(i))

\* Lines 402-421: fill the tagged fields of parameter p (number i) from d.
RECURSIVE FillParameter(_, _, _, _)
FillParameter(d, p, i, j) ==
    IF j > Len(ParameterFields) THEN [p |-> p, err |-> NoErr]
    ELSE LET f == ParameterFields[j]
             k == ParameterKeyword(f.tag, i)
         IN  IF k \notin DOMAIN d THEN FillParameter(d, p, i, j + 1)
             ELSE LET r == scanValueToStructField(d[k], f.type, p[f.name])
                  IN  IF r.err # NoErr THEN [p |-> p, err |-> r.err]
                      ELSE FillParameter(d, [p EXCEPT ![f.name] = r.val], i, j + 1)

\* A byte order switch whose default case falls back to little endian.
ByteOrderDefaulted(d) ==
    IF K_BYTEORD \notin DOMAIN d
    THEN [err |-> <<"required parameter $BYTEORD not found">>, val |-> <<>>]
    ELSE IF d[K_BYTEORD] = S_4321 THEN [err |-> NoErr, val |-> S_BigEndian]
    ELSE [err |-> NoErr, val |-> S_LittleEndian]

\* Lines 428-439: the readable byte order for the dictionary's $BYTEORD.
ByteOrderOf(d) ==
    IF K_BYTEORD \notin DOMAIN d
    THEN [err |-> <<"required parameter $BYTEORD not found">>, val |-> <<>>]
    ELSE IF d[K_BYTEORD] = S_1234 THEN [err |-> NoErr, val |-> S_LittleEndian]
    ELSE IF d[K_BYTEORD] = S_4321 THEN [err |-> NoErr, val |-> S_BigEndian]
    ELSE [err |-> <<"unknown byte order", d[K_BYTEORD]>>, val |-> <<>>]

\* Lines 458-472: the first required keyword missing from d, for np
\* parameters; <<>> when none is missing.
FirstMissing(d, np) ==
    LET top == {j \in 1..Len(requiredKeywords) : requiredKeywords[j] \notin DOMAIN d}
        par == {x \in (1..np) \X (1..Len(requiredParameterKeywords)) :
                   Sprintf(requiredParameterKeywords[x[2]], x[1]) \notin DOMAIN d}
        first == CHOOSE x \in par : \A y \in par :
                    x[1] < y[1] \/ (x[1] = y[1] /\ x[2] <= y[2])
    IN  IF top # {} THEN requiredKeywords[Min(top)]
        ELSE IF par # {} THEN Sprintf(requiredParameterKeywords[first[2]], first[1])
        ELSE <<>>

\* ------------------------------------------- decodeText: the schema part

\* Variables the schema part leaves alone.
SchemaFrame ==
    UNCHANGED <<text, pos, delimiter, keyword, value, keywords, kv,
                dataSeg, dpos, data, hostOrder, retData,
                stream, dec, op, calls>>

\* Lines 370-391: parse the dictionary into the fields of the struct.  A
\* value that does not parse returns (m, err).
ParseFields ==
    /\ pc = "fields"
    /\ LET r == FillFields(kv, m, 1)
       IN  /\ m' = r.m
           /\ err' = r.err
           /\ pc' = IF r.err # NoErr THEN "returned" ELSE "alloc"
    /\ UNCHANGED <<pi, retM>>
    /\ SchemaFrame

\* Line 394: make([]Parameter, 0, m.NumParameters) panics on a negative
\* capacity.
AllocParameters ==
    /\ pc = "alloc"
    /\ IF m.NumParameters < 0
       THEN pc' = "panicked" /\ UNCHANGED <<m, pi>>
       ELSE /\ m' = [m EXCEPT !.Parameters = <<>>]
            /\ pi' = 1
            /\ pc' = "parameter"
    /\ UNCHANGED <<retM, err>>
    /\ SchemaFrame

\* A parameter loop that numbers the parameters from zero.
ParameterIDFromZero(i) == i - 1

\* Line 397: the ParameterID of the i-th parameter.
ParameterIDOf(i) == i

\* Lines 395-424: one round of the parameter loop, or its end.
ParseParameter ==
    /\ pc = "parameter"
    /\ IF pi > m.NumParameters
       THEN pc' = "byteorder" /\ UNCHANGED <<m, pi, err>>
       ELSE LET r == FillParameter(kv, NewParameter(ParameterIDOf(pi)), pi, 1)
            IN  IF r.err # NoErr
                THEN pc' = "returned" /\ err' = r.err /\ UNCHANGED <<m, pi>>
                ELSE /\ m' = [m EXCEPT !.Parameters = Append(@, r.p)]
                     /\ pi' = pi + 1
                     /\ UNCHANGED <<pc, err>>
    /\ UNCHANGED retM
    /\ SchemaFrame

\* Lines 426-439: replace the byte order by its readable form.
NormalizeByteOrder ==
    /\ pc = "byteorder"
    /\ LET r == ByteOrderOf(kv)
       IN  IF r.err # NoErr
           THEN pc' = "returned" /\ err' = r.err /\ UNCHANGED m
           ELSE pc' = "datetime" /\ m' = [m EXCEPT !.ByteOrder = r.val]
                /\ UNCHANGED err
    /\ UNCHANGED <<pi, retM>>
    /\ SchemaFrame

\* Lines 444 and 447: the day of date with the time of day of t.
OnDate(date, t) == [day |-> date.day, sec |-> t.sec, nsec |-> t.nsec]

\* Lines 442-453: the begin and end times of md with the date added.
AddDate(md) ==
    IF TimeIsZero(md.Date) THEN md
    ELSE LET b == IF TimeIsZero(md.BeginTime) THEN md.BeginTime
                  ELSE OnDate(md.Date, md.BeginTime)
             e == IF TimeIsZero(md.EndTime) THEN md.EndTime
                  ELSE OnDate(md.Date, md.EndTime)
         IN  [md EXCEPT !.BeginTime = b,
                        !.EndTime = IF Before(e, b) THEN AddDays(e, 1) ELSE e]

\* Lines 441-453: add the date to the begin and end times.
CombineDateTime ==
    /\ pc = "datetime"
    /\ m' = AddDate(m)
    /\ pc' = "validate"
    /\ UNCHANGED <<pi, retM, err>>
    /\ SchemaFrame

\* Lines 455-474: the required keywords must be in the dictionary.
ValidateRequired ==
    /\ pc = "validate"
    /\ LET k == FirstMissing(kv, m.NumParameters)
       IN  IF k # <<>>
           THEN pc' = "returned" /\ err' = <<"missing required keyword", k>>
           ELSE pc' = "metadata" /\ UNCHANGED err
    /\ UNCHANGED <<m, pi, retM>>
    /\ SchemaFrame

\* Lines 187-195, DecodeMetadata after decodeText returned a nil error.
DecodeMetadataReturn ==
    /\ pc = "metadata"
    /\ pc' = "returned"
    /\ UNCHANGED <<m, pi, retM, err>>
    /\ SchemaFrame

\* ------------------------------------------------- specification: schema

\* Largest $PAR of the dictionaries the schema is run on.
MaxPar == 2

Absent == <<"absent">>

\* The dictionary holding the pairs whose value is not Absent.
MkKV(pairs) ==
    [k \in {x[1] : x \in {y \in pairs : y[2] # Absent}} |->
        (CHOOSE x \in pairs : x[1] = k /\ x[2] # Absent)[2]]

\* What a dictionary may hold for the four required keywords of a parameter:
\* all of them, all but one, or one that does not parse.
ParamProfiles ==
    LET full == [B |-> <<"8">>, E |-> <<"0",",","0">>, N |-> <<"a">>, R |-> <<"4">>]
    IN  {full,
         [full EXCEPT !.B = Absent], [full EXCEPT !.E = Absent],
         [full EXCEPT !.N = Absent], [full EXCEPT !.R = Absent],
         [full EXCEPT !.B = <<"x">>], [full EXCEPT !.E = <<"1">>]}

ParamPairs(i, prof) ==
    {<<ParameterKeyword(<<"$","P","n","B">>, i), prof.B>>,
     <<ParameterKeyword(<<"$","P","n","E">>, i), prof.E>>,
     <<ParameterKeyword(<<"$","P","n","N">>, i), prof.N>>,
     <<ParameterKeyword(<<"$","P","n","R">>, i), prof.R>>}

\* What a dictionary may hold for $PAR, with the number of parameters whose
\* keywords it then holds.
ParChoices ==
    {<<Absent, 0>>, <<<<"-","1">>, 0>>, <<S_NA, 0>>}
    \cup {<<Itoa(n), n>> : n \in 0..MaxPar}

MetaDictionaries ==
    {MkKV({<<K_BYTEORD, bo>>, <<K_DATATYPE, dm[1]>>, <<K_MODE, dm[2]>>,
           <<K_NEXTDATA, nd>>, <<K_PAR, pp[1][1]>>, <<K_TOT, tot>>}
          \cup UNION {ParamPairs(i, pp[2][i]) : i \in 1..pp[1][2]}) :
        bo \in {Absent, S_1234, S_4321, S_LittleEndian},
        dm \in {<<<<"I">>, <<"L">>>>, <<Absent, <<"L">>>>, <<<<"I">>, Absent>>},
        nd \in {Absent, <<"0">>},
        tot \in {Absent, <<"2">>, <<"x">>},
        pp \in UNION {{<<par, prof>> : prof \in [1..par[2] -> ParamProfiles]} :
                        par \in ParChoices}}

InitMeta ==
    /\ kv \in MetaDictionaries
    /\ text = <<>>
    /\ pos = 0
    /\ delimiter = "/"
    /\ keyword = <<>>
    /\ value = <<>>
    /\ keywords = <<>>
    /\ m = ZeroMetadata
    /\ pi = 0
    /\ dataSeg = <<>>
    /\ dpos = 0
    /\ data = <<>>
    /\ hostOrder = "LittleEndian"
    /\ pc = "fields"
    /\ retM = TRUE
    /\ retData = FALSE
    /\ err = NoErr
    /\ NoDecoder

NextMeta ==
    \/ ParseFields \/ AllocParameters \/ ParseParameter
    \/ NormalizeByteOrder \/ CombineDateTime
    \/ ValidateRequired \/ DecodeMetadataReturn

SpecMeta == InitMeta /\ [][NextMeta]_vars

\* ------------------------------------------------------------ decodeData

\* A byte of the DATA segment is modelled as a digit of base ByteBase, so that
\* an integer of eight bytes stays within the range of the model checker; an
\* n-bit integer is n/8 such digits.
ByteBase == 4

\* A float64 that is a number is the rational num/den with den >= 0; a zero
\* den is an infinity or a NaN.
Float(n) == [num |-> n, den |-> 1]

\* x / g on float64
FDiv(x, g) ==
    LET n == x.num * g.den
        d == x.den * g.num
    IN  IF d < 0 THEN [num |-> 0 - n, den |-> 0 - d] ELSE [num |-> n, den |-> d]

IsZero(x) == x.num = 0 /\ x.den # 0

\* math.Pow(10, f1*x/r) * f2, kept as a term
AntiLog(f1, x, r, f2) == [f1 |-> f1, x |-> x, r |-> r, f2 |-> f2]

\* The unsigned integer of n bytes at offset off (from zero) of buf, in the
\* given byte order.
RECURSIVE LittleEndianUint(_, _, _)
LittleEndianUint(buf, off, n) ==
    IF n = 0 THEN 0
    ELSE buf[off + 1] + ByteBase * LittleEndianUint(buf, off + 1, n - 1)

RECURSIVE BigEndianUint(_, _, _)
BigEndianUint(buf, off, n) ==
    IF n = 0 THEN 0
    ELSE ByteBase * BigEndianUint(buf, off, n - 1) + buf[off + n]

\* Lines 701-719: *(*uintN)(unsafe.Pointer(bPtr)) reads the bytes at bPtr in
\* the byte order of the machine.
PointerRead(buf, off, n, order) ==
    IF order = "LittleEndian" THEN LittleEndianUint(buf, off, n)
    ELSE BigEndianUint(buf, off, n)

\* The byte orders of the machines a build can run on.
HostOrders == {"LittleEndian", "BigEndian"}

\* An IEEE-754 value of n bytes read by encoding/binary in the given order:
\* its bytes, most significant first.
FloatBits(buf, off, n, order) ==
    [bits |-> IF order = S_LittleEndian
              THEN ReverseSeq(SubSeq(buf, off + 1, off + n))
              ELSE SubSeq(buf, off + 1, off + n),
     size |-> n]

\* Variables the DATA decoder leaves alone.
DataFrame ==
    UNCHANGED <<text, pos, delimiter, keyword, value, keywords, kv, m, pi,
                dataSeg, retM, stream, dec, op, calls>>

DictValue(d, k) == IF k \in DOMAIN d THEN d[k] ELSE <<>>

\* Lines 591-593: only list mode is decoded.  The deferred check of the
\* segment length is not yet in place when this returns.
DataModeCheck ==
    /\ pc = "data"
    /\ IF DictValue(kv, K_MODE) # <<"L">>
       THEN /\ pc' = "decoded"
            /\ retData' = FALSE
            /\ err' = <<"only list mode is supported as data mode">>
       ELSE /\ pc' = "alloc data"
            /\ UNCHANGED <<retData, err>>
    /\ UNCHANGED <<dpos, data, hostOrder>>
    /\ DataFrame

\* Lines 607-624: allocate the matrix; an empty matrix is returned at once.
DataAlloc ==
    /\ pc = "alloc data"
    /\ LET n == m.NumParameters * m.NumEvents
       IN  IF n < 0
           THEN pc' = "panicked" /\ UNCHANGED <<data, retData, err>>
           ELSE /\ data' = [j \in 1..n |-> Float(0)]
                /\ IF n = 0
                   THEN pc' = "deferred" /\ retData' = TRUE /\ err' = NoErr
                   ELSE /\ UNCHANGED <<retData, err>>
                        /\ pc' = IF m.ByteOrder \in {S_LittleEndian, S_BigEndian}
                                 THEN "dispatch" ELSE "panicked"
    /\ UNCHANGED <<dpos, hostOrder>>
    /\ DataFrame

\* A switch on the data type without the case "A": ASCII data falls through
\* to line 646.
DecodeAsciiAsUnknown ==
    /\ pc = "dispatch"
    /\ DictValue(kv, K_DATATYPE) = <<"A">>
    /\ pc' = "deferred"
    /\ retData' = FALSE
    /\ err' = <<"unknown data type", DictValue(kv, K_DATATYPE)>>
    /\ UNCHANGED <<dpos, data, hostOrder>>
    /\ DataFrame

\* Lines 627-628
DecodeAscii ==
    /\ pc = "dispatch"
    /\ DictValue(kv, K_DATATYPE) = <<"A">>
    /\ pc' = "deferred"
    /\ retData' = FALSE
    /\ err' = <<"ASCII data type is deprecated">>
    /\ UNCHANGED <<dpos, data, hostOrder>>
    /\ DataFrame

\* binary.Read of count values of size bytes each: io.ReadFull takes all the
\* bytes or fails, having consumed what there was.
BinaryRead(count, size) ==
    LET need == count * size
        have == Len(dataSeg) - dpos
    IN  IF have >= need
        THEN [err |-> NoErr, dpos |-> dpos + need,
              vals |-> [j \in 1..count |->
                          FloatBits(dataSeg, dpos + (j - 1) * size, size, m.ByteOrder)]]
        ELSE [err |-> IF have = 0 THEN <<"EOF">> ELSE <<"unexpected EOF">>,
              dpos |-> Len(dataSeg), vals |-> <<>>]

\* Lines 629-631
DecodeDouble ==
    /\ pc = "dispatch"
    /\ DictValue(kv, K_DATATYPE) = <<"D">>
    /\ LET r == BinaryRead(m.NumParameters * m.NumEvents, 8)
       IN  /\ dpos' = r.dpos
           /\ err' = r.err
           /\ data' = IF r.err = NoErr THEN r.vals ELSE data
    /\ retData' = TRUE
    /\ pc' = "deferred"
    /\ UNCHANGED hostOrder
    /\ DataFrame

\* Lines 632-641
DecodeFloat ==
    /\ pc = "dispatch"
    /\ DictValue(kv, K_DATATYPE) = <<"F">>
    /\ LET r == BinaryRead(m.NumParameters * m.NumEvents, 4)
       IN  /\ dpos' = r.dpos
           /\ err' = r.err
           /\ data' = IF r.err = NoErr THEN r.vals ELSE data
           /\ retData' = (r.err = NoErr)
    /\ pc' = "deferred"
    /\ UNCHANGED hostOrder
    /\ DataFrame

\* Line 646
DecodeUnknownType ==
    /\ pc = "dispatch"
    /\ DictValue(kv, K_DATATYPE) \notin {<<"A">>, <<"D">>, <<"F">>, <<"I">>}
    /\ pc' = "deferred"
    /\ retData' = FALSE
    /\ err' = <<"unknown data type", DictValue(kv, K_DATATYPE)>>
    /\ UNCHANGED <<dpos, data, hostOrder>>
    /\ DataFrame

\* Lines 658-671: the bytes of each parameter; <<>> when a bit length is
\* none of 8, 16, 32, 64.
paramBytes(md) ==
    IF \A i \in 1..md.NumParameters : md.Parameters[i].BitLength \in {8, 16, 32, 64}
    THEN [i \in 1..md.NumParameters |-> md.Parameters[i].BitLength \div 8]
    ELSE <<>>

RECURSIVE SumSeq(_)
SumSeq(s) == IF s = <<>> THEN 0 ELSE Head(s) + SumSeq(Tail(s))

\* Lines 693-728: the matrix read from buf.  Parameter i (from zero) starts
\* at the sum of the bytes of the parameters before it and is read once per
\* event, eventBytes apart, into data[i], data[i+np], ...
ConvertInts(buf, pb, np, ne, order) ==
    LET eventBytes == SumSeq(pb)
        bufOffset(i) == SumSeq(SubSeq(pb, 1, i))
    IN  [n \in 1..(np * ne) |->
            LET i == (n - 1) % np
                j == (n - 1) \div np
            IN  Float(PointerRead(buf, bufOffset(i) + j * eventBytes, pb[i + 1], order))]

\* Lines 649-728, decodeIntData up to the transform.
DecodeIntData ==
    /\ pc = "dispatch"
    /\ DictValue(kv, K_DATATYPE) = <<"I">>
    /\ retData' = TRUE
    /\ LET np == m.NumParameters
           ne == m.NumEvents
           pb == paramBytes(m)
           need == ne * SumSeq(pb)
           nr == IF Len(dataSeg) - dpos < need THEN Len(dataSeg) - dpos ELSE need
       IN  IF m.ByteOrder # S_LittleEndian
           THEN /\ err' = <<"currently only little endian is implemented">>
                /\ pc' = "deferred"
                /\ UNCHANGED <<dpos, data, hostOrder>>
           ELSE IF pb = <<>>
           THEN /\ err' = <<"bit length is not yet supported">>
                /\ pc' = "deferred"
                /\ UNCHANGED <<dpos, data, hostOrder>>
           ELSE IF nr # need
           THEN /\ err' = <<"not enough bytes read">>
                /\ dpos' = dpos + nr
                /\ pc' = "deferred"
                /\ UNCHANGED <<data, hostOrder>>
           ELSE /\ \E order \in HostOrders :
                     /\ hostOrder' = order
                     /\ data' = ConvertInts(SubSeq(dataSeg, dpos + 1, dpos + need),
                                            pb, np, ne, order)
                /\ dpos' = dpos + need
                /\ pc' = "transform"
                /\ UNCHANGED err
    /\ DataFrame

\* A loop over the values that stops after the first event.
ColumnFirstEvent(i, np, ne) == {j \in 0..(np * ne - 1) : j = i}

\* Lines 748 and 760: the indexes (from zero) that the loop over the values
\* of parameter i visits.
ColumnOf(i, np, ne) == {j \in 0..(np * ne - 1) : j >= i /\ (j - i) % np = 0}

\* Lines 740-764: the transform of parameter i (from zero), p, on d.
TransformParameter(d, i, p, np, ne) ==
    LET f1 == p.AmplificationType[1]
        f2 == p.AmplificationType[2]
    IN  IF IsZero(f1) /\ IsZero(f2)
        THEN IF p.AmplifierGain = Nil THEN d
             ELSE [n \in 1..Len(d) |->
                     IF (n - 1) \in ColumnOf(i, np, ne)
                     THEN FDiv(d[n], p.AmplifierGain[1]) ELSE d[n]]
        ELSE [n \in 1..Len(d) |->
                IF (n - 1) \in ColumnOf(i, np, ne)
                THEN AntiLog(f1, d[n], Float(p.Range),
                             IF IsZero(f2) THEN Float(1) ELSE f2)
                ELSE d[n]]

\* Lines 735-768: the parameters are transformed one after the other.
RECURSIVE applyTransform(_, _, _)
applyTransform(d, md, i) ==
    IF i >= Len(md.Parameters) THEN d
    ELSE applyTransform(
            TransformParameter(d, i, md.Parameters[i + 1], md.NumParameters, md.NumEvents),
            md, i + 1)

\* Lines 730-731 and 643-644
ApplyTransform ==
    /\ pc = "transform"
    /\ data' = applyTransform(data, m, 0)
    /\ err' = NoErr
    /\ pc' = "deferred"
    /\ UNCHANGED <<dpos, hostOrder, retData>>
    /\ DataFrame

\* Lines 594-605, the deferred function: it drains the limited reader and
\* builds its errors in an err of its own, declared by "n, err :=", so the
\* error result of decodeData stays as the return statement set it.
DeferredError(left, md) ==
    IF left > 0 THEN <<"bytes left after decoding DATA segment", left>>
    ELSE IF md.NextData # 0 THEN <<"this file contains multiple dataset">>
    ELSE NoErr

ErrAfterDeferred(returned, deferred) == returned

DeferredCheck ==
    /\ pc = "deferred"
    /\ dpos' = Len(dataSeg)
    /\ err' = ErrAfterDeferred(err, DeferredError(Len(dataSeg) - dpos, m))
    /\ pc' = "decoded"
    /\ UNCHANGED <<data, hostOrder, retData>>
    /\ DataFrame

\* ------------------------------------------------ specification: scanner

TextAlphabet == {"/", "a", " "}

InitText ==
    /\ text \in UNION {[1..n -> TextAlphabet] : n \in 0..MaxTextLen}
    /\ pos = 0
    /\ delimiter = ""
    /\ keyword = <<>>
    /\ value = <<>>
    /\ keywords = <<>>
    /\ kv = <<>>
    /\ m = ZeroMetadata
    /\ pi = 0
    /\ dataSeg = <<>>
    /\ dpos = 0
    /\ data = <<>>
    /\ hostOrder = "LittleEndian"
    /\ pc = "delimiter"
    /\ retM = FALSE
    /\ retData = FALSE
    /\ err = NoErr
    /\ NoDecoder

NextText == ScanDelimiter \/ ScanKeyword \/ ScanValue \/ StorePair \/ ScanRemaining

SpecText == InitText /\ [][NextText]_vars

\* ------------------------------------------------- specification: Decode

\* Lines 203-215, Decode after DecodeMetadata returned a nil error: skip to
\* the DATA segment and decode it from a reader limited to the segment.
DecodeBeginData ==
    /\ pc = "metadata"
    /\ pc' = "data"
    /\ UNCHANGED <<dpos, data, hostOrder, retData, err>>
    /\ DataFrame

\* Largest $PAR and $TOT of the data sets decoded.
MaxDataPar == 2
MaxEvents == 2

\* The keywords of one parameter: bit length, amplification type, gain.
DataProfiles ==
    {[B |-> <<"8">>,     E |-> <<"0",",","0">>, G |-> Absent],
     [B |-> <<"1","6">>, E |-> <<"0",",","0">>, G |-> <<"2">>],
     [B |-> <<"3","2">>, E |-> <<"2",",","1">>, G |-> Absent],
     [B |-> <<"6","4">>, E |-> <<"0",",","0">>, G |-> <<"0",".","5">>],
     [B |-> <<"1","0">>, E |-> <<"0",",","0">>, G |-> S_NA]}

DataParamPairs(i, prof) ==
    {<<ParameterKeyword(<<"$","P","n","B">>, i), prof.B>>,
     <<ParameterKeyword(<<"$","P","n","E">>, i), prof.E>>,
     <<ParameterKeyword(<<"$","P","n","N">>, i), <<"a">>>>,
     <<ParameterKeyword(<<"$","P","n","R">>, i), <<"4">>>>,
     <<ParameterKeyword(<<"$","P","n","G">>, i), prof.G>>}

\* A data set: mode and data type, byte order and $NEXTDATA, the number of
\* events and the parameters.
DataSets ==
    {[md |-> md, on |-> on, tot |-> tot, profs |-> profs] :
        md \in ({<<"L">>} \X {<<"I">>, <<"F">>, <<"D">>, <<"A">>, <<"X">>})
               \cup ({<<"H">>} \X {<<"I">>, <<"A">>}),
        on \in {<<S_1234, <<"0">>>>, <<S_1234, <<"5">>>>, <<S_4321, <<"0">>>>},
        tot \in 0..MaxEvents,
        profs \in UNION {[1..n -> DataProfiles] : n \in 0..MaxDataPar}}

DataDictionary(ds) ==
    MkKV({<<K_BYTEORD, ds.on[1]>>, <<K_NEXTDATA, ds.on[2]>>,
          <<K_MODE, ds.md[1]>>, <<K_DATATYPE, ds.md[2]>>,
          <<K_PAR, Itoa(Len(ds.profs))>>, <<K_TOT, Itoa(ds.tot)>>}
         \cup UNION {DataParamPairs(i, ds.profs[i]) : i \in 1..Len(ds.profs)})

\* The bytes the values of the data set take in the DATA segment.
DataSetBytes(ds) ==
    LET np == Len(ds.profs)
        width(i) == IF Atoi(ds.profs[i].B).val \in {8, 16, 32, 64}
                    THEN Atoi(ds.profs[i].B).val \div 8 ELSE 1
    IN  CASE ds.md[2] = <<"I">> -> ds.tot * SumSeq([i \in 1..np |-> width(i)])
          [] ds.md[2] = <<"F">> -> ds.tot * np * 4
          [] ds.md[2] = <<"D">> -> ds.tot * np * 8
          [] OTHER -> 0

\* The DATA segments a header may delimit for need bytes of values: the exact
\* length, one byte short and one byte long.
DataSegments(need) ==
    {[i \in 1..n[1] |-> (i + n[2]) % ByteBase] :
        n \in {<<need, 0>>, <<need, 1>>, <<need + 1, 0>>}
              \cup (IF need > 0 THEN {<<need - 1, 0>>} ELSE {})}

InitDecode ==
    /\ \E ds \in DataSets :
          /\ kv = DataDictionary(ds)
          /\ dataSeg \in DataSegments(DataSetBytes(ds))
    /\ text = <<>>
    /\ pos = 0
    /\ delimiter = "/"
    /\ keyword = <<>>
    /\ value = <<>>
    /\ keywords = <<>>
    /\ m = ZeroMetadata
    /\ pi = 0
    /\ dpos = 0
    /\ data = <<>>
    /\ hostOrder = "unknown"
    /\ pc = "fields"
    /\ retM = TRUE
    /\ retData = FALSE
    /\ err = NoErr
    /\ NoDecoder

NextDecode ==
    \/ ParseFields \/ AllocParameters \/ ParseParameter
    \/ NormalizeByteOrder \/ CombineDateTime
    \/ ValidateRequired \/ DecodeBeginData
    \/ DataModeCheck \/ DataAlloc
    \/ DecodeAscii \/ DecodeDouble \/ DecodeFloat \/ DecodeUnknownType
    \/ DecodeIntData \/ ApplyTransform \/ DeferredCheck

SpecDecode == InitDecode /\ [][NextDecode]_vars

\* ------------------------------------------------------- claims: scanner

\* The keyword bytes last read by ReadString, without the delimiter.
KeywordRead == SubSeq(keyword, 1, Len(keyword) - 1)

\* C3: every keyword appended to the keyword list and every key stored in the
\* dictionary is the upper-case form of the keyword bytes read from the file.
\* (After StorePair the scanner is back at "keyword" and keyword still holds
\* the bytes of the pair just stored.)
C3_KeywordsUpperCased ==
    (pc = "keyword" /\ keywords # <<>>) =>
        /\ keywords[Len(keywords)] = ToUpper(KeywordRead)
        /\ ToUpper(KeywordRead) \in DOMAIN kv
        /\ \A k \in DOMAIN kv : k = ToUpper(k)

\* A value as it is written in the file: every delimiter doubled.
RECURSIVE Escape(_, _)
Escape(delim, v) ==
    IF v = <<>> THEN <<>>
    ELSE (IF Head(v) = delim THEN <<delim, delim>> ELSE <<Head(v)>>)
         \o Escape(delim, Tail(v))

\* Longest value written in the file that C4 quantifies over.
MaxValueLen == 3

WrittenValues == UNION {[1..n -> TextAlphabet] : n \in 0..MaxValueLen}

\* At position p the file holds v with its delimiters doubled, then a single
\* delimiter, then a byte that is no delimiter or the end of the segment.
ValueWrittenAt(p, v) ==
    LET e == Escape(delimiter, v)
        q == p + Len(e) + 1
    IN  /\ q <= Len(text)
        /\ SubSeq(text, p + 1, q - 1) = e
        /\ text[q] = delimiter
        /\ (q = Len(text) \/ text[q + 1] # delimiter)

\* C4: a value written with each literal delimiter doubled and ended by a
\* single delimiter is read as the value with one delimiter per doubled pair
\* (followed by its terminating delimiter, which StorePair strips), the
\* scanner stops right after the terminating delimiter, and StorePair stores
\* the value, trimmed, under the keyword, and goes on to the next keyword at
\* the same position.
C4_DoubledDelimiter ==
    [][ /\ (pc = "value" =>
              \A v \in WrittenValues : ValueWrittenAt(pos, v) =>
                  /\ pc' = "store"
                  /\ value' = Append(v, delimiter)
                  /\ pos' = pos + Len(Escape(delimiter, v)) + 1)
        /\ (pc = "store" =>
              /\ pc' = "keyword"
              /\ pos' = pos
              /\ KeywordRead \in DOMAIN kv'
              /\ kv'[KeywordRead] = TrimSpace(SubSeq(value, 1, Len(value) - 1)))
      ]_vars

\* A value holding a literal delimiter has been stored.
C4_Witness ==
    /\ pc = "keyword"
    /\ \E k \in DOMAIN kv : \E i \in 1..Len(kv[k]) : kv[k][i] = delimiter

\* -------------------------------------------------------- claims: schema

\* The keywords the standard requires of a data set with np parameters.
RequiredKeys(np) ==
    {K_BYTEORD, K_DATATYPE, K_MODE, K_NEXTDATA, K_PAR, K_TOT}
    \cup {<<"$", "P">> \o Itoa(n) \o <<c>> : n \in 1..np, c \in {"B", "E", "N", "R"}}

SomeRequiredAbsent == \E k \in RequiredKeys(m.NumParameters) : k \notin DOMAIN kv

Ended == pc \in {"returned", "panicked"}

\* C5: when a required top-level keyword, or a required keyword of one of the
\* NumParameters parameters, is absent from the dictionary, DecodeMetadata
\* returns (it does not panic) a non-nil Metadata together with a non-nil
\* error; and whenever it returns a nil error all of them are present.
C5_MissingKeywordReturned ==
    Ended =>
        /\ SomeRequiredAbsent => (pc = "returned" /\ retM /\ err # NoErr)
        /\ (pc = "returned" /\ err = NoErr) => ~SomeRequiredAbsent

\* C6: a Metadata returned with a nil error has NumParameters parameters, and
\* the parameter at index i (from zero) has ParameterID i+1.
C6_ParametersMatchPar ==
    (pc = "returned" /\ err = NoErr) =>
        /\ Len(m.Parameters) = m.NumParameters
        /\ \A i \in 1..Len(m.Parameters) : m.Parameters[i].ParameterID = i

C6_Witness ==
    pc = "returned" /\ err = NoErr /\ retM /\ m.NumParameters >= 2

DictByteOrder == IF K_BYTEORD \in DOMAIN kv THEN kv[K_BYTEORD] ELSE Absent

\* C8 as first stated: in every Metadata that metadata decoding returns,
\* ByteOrder is LittleEndian exactly when $BYTEORD is "1,2,3,4" and BigEndian
\* exactly when it is "4,3,2,1"; any other or absent value gives an error and
\* a ByteOrder that is neither.
C8_ByteOrderExactly ==
    (pc = "returned" /\ retM) =>
        /\ m.ByteOrder = S_LittleEndian <=> DictByteOrder = S_1234
        /\ m.ByteOrder = S_BigEndian <=> DictByteOrder = S_4321
        /\ DictByteOrder \notin {S_1234, S_4321} =>
              (err # NoErr /\ m.ByteOrder \notin {S_LittleEndian, S_BigEndian})

\* C8, amended: a Metadata returned with a nil error has $BYTEORD "1,2,3,4"
\* and ByteOrder LittleEndian, or $BYTEORD "4,3,2,1" and ByteOrder BigEndian;
\* any other or absent $BYTEORD never returns a nil error.  A Metadata
\* returned with an error holds in ByteOrder the empty string, the text of
\* $BYTEORD or its readable form, never a default.
C8_ByteOrderOnSuccess ==
    pc = "returned" =>
        /\ err = NoErr =>
              \/ DictByteOrder = S_1234 /\ m.ByteOrder = S_LittleEndian
              \/ DictByteOrder = S_4321 /\ m.ByteOrder = S_BigEndian
        /\ DictByteOrder \notin {S_1234, S_4321} => err # NoErr
        /\ m.ByteOrder = S_LittleEndian => DictByteOrder \in {S_1234, S_LittleEndian}
        /\ m.ByteOrder = S_BigEndian => DictByteOrder \in {S_4321, S_BigEndian}
        /\ m.ByteOrder \in {<<>>, DictByteOrder, S_LittleEndian, S_BigEndian}

C8_Witness ==
    pc = "returned" /\ err = NoErr /\ m.ByteOrder = S_BigEndian

\* ---------------------------------------------------------- claims: data

DataType == DictValue(kv, K_DATATYPE)

\* C1: when bytes are left in the DATA segment after the matrix has been
\* decoded without error, Decode returns that matrix together with the
\* error that reports the bytes left.
C1_TrailingBytesReported ==
    [][(pc = "deferred" /\ retData /\ err = NoErr /\ Len(dataSeg) - dpos > 0) =>
          /\ pc' = "decoded"
          /\ retData' /\ data' = data
          /\ err' = <<"bytes left after decoding DATA segment", Len(dataSeg) - dpos>>
      ]_vars

\* C2: when $NEXTDATA is not zero and the first data set has been decoded
\* without error, Decode returns its matrix together with a non-nil error,
\* which is the error for multiple data sets when no bytes are left in the
\* DATA segment.
C2_MultipleDatasetsReported ==
    [][(pc = "deferred" /\ retData /\ err = NoErr /\ m.NextData # 0) =>
          /\ pc' = "decoded"
          /\ retData' /\ data' = data
          /\ err' # NoErr
          /\ (Len(dataSeg) - dpos = 0 =>
                err' = <<"this file contains multiple dataset">>)
      ]_vars

\* C7 as first stated: whenever $DATATYPE is "A" the data decoder returns the
\* error for the unsupported data type and no matrix, whatever the mode and
\* the numbers of events and parameters.
C7_AsciiAlwaysUnsupported ==
    (pc = "decoded" /\ DataType = <<"A">>) =>
        (err = <<"ASCII data type is deprecated">> /\ ~retData)

\* C7, amended: with $DATATYPE "A" the data decoder returns the error for the
\* unsupported data type and no matrix when $MODE is "L" and
\* NumParameters*NumEvents > 0; the list mode error and no matrix when $MODE
\* is not "L"; and the empty matrix, without the error for the unsupported
\* data type, when $MODE is "L" and NumParameters*NumEvents = 0.
C7_AsciiUnsupported ==
    (pc = "decoded" /\ DataType = <<"A">>) =>
        IF DictValue(kv, K_MODE) # <<"L">>
        THEN err = <<"only list mode is supported as data mode">> /\ ~retData
        ELSE IF m.NumParameters * m.NumEvents > 0
        THEN err = <<"ASCII data type is deprecated">> /\ ~retData
        ELSE /\ m.NumParameters * m.NumEvents = 0
             /\ retData /\ data = <<>>
             /\ err # <<"ASCII data type is deprecated">>

C7_Witness ==
    /\ pc = "decoded" /\ DataType = <<"A">>
    /\ err = <<"ASCII data type is deprecated">>

\* The layout of an event in the DATA segment, parameters counted from 1 and
\* events from 0.
WidthOf(p) == m.Parameters[p].BitLength \div 8
EventBytes == SumSeq([p \in 1..m.NumParameters |-> WidthOf(p)])
OffsetOf(e, p) == e * EventBytes + SumSeq([q \in 1..(p - 1) |-> WidthOf(q)])

\* The value of parameter p of event e as the decoder read it.
RawValue(e, p) == PointerRead(dataSeg, OffsetOf(e, p), WidthOf(p), hostOrder)

IsLinear(p) ==
    /\ IsZero(m.Parameters[p].AmplificationType[1])
    /\ IsZero(m.Parameters[p].AmplificationType[2])

IntegersDecoded == pc = "decoded" /\ DataType = <<"I">> /\ err = NoErr /\ retData

\* C9: in integer data returned without error, the value of event e for a
\* parameter p with amplification type (0,0) is the raw value divided by the
\* gain, once (its product with the gain is the raw value), or the raw value
\* itself when there is no gain; the values of the other parameters are the
\* antilog of their own raw values, untouched by the division.
C9_LinearTransform ==
    IntegersDecoded =>
        /\ Len(data) = m.NumParameters * m.NumEvents
        /\ \A p \in 1..m.NumParameters : \A e \in 0..(m.NumEvents - 1) :
              LET d == data[e * m.NumParameters + p]
                  par == m.Parameters[p]
              IN  IF ~IsLinear(p)
                  THEN d = AntiLog(par.AmplificationType[1], Float(RawValue(e, p)),
                                   Float(par.Range),
                                   IF IsZero(par.AmplificationType[2]) THEN Float(1)
                                   ELSE par.AmplificationType[2])
                  ELSE IF par.AmplifierGain = Nil
                  THEN d = Float(RawValue(e, p))
                  ELSE /\ d.den # 0
                       /\ d.num * par.AmplifierGain[1].num
                            = RawValue(e, p) * par.AmplifierGain[1].den * d.den

\* Two events of two parameters, the second linear with a gain, and a raw
\* value of it that the division changes.
C9_Witness ==
    /\ IntegersDecoded
    /\ m.NumParameters = 2 /\ m.NumEvents = 2
    /\ IsLinear(2) /\ m.Parameters[2].AmplifierGain # Nil
    /\ RawValue(1, 2) # 0
    /\ data[4] # Float(RawValue(1, 2))

\* C10: with a DATA segment of exactly NumEvents*eventBytes bytes, the matrix
\* before the transform has NumParameters*NumEvents values, and the value of
\* event e and parameter p is the unsigned little-endian integer of the
\* parameter's width at offset e*eventBytes plus the widths of the parameters
\* before p.
C10_LittleEndianIntegers ==
    (pc = "transform" /\ Len(dataSeg) = m.NumEvents * EventBytes) =>
        /\ Len(data) = m.NumParameters * m.NumEvents
        /\ \A p \in 1..m.NumParameters : \A e \in 0..(m.NumEvents - 1) :
              data[e * m.NumParameters + p]
                = Float(LittleEndianUint(dataSeg, OffsetOf(e, p), WidthOf(p)))

\* ------------------------------------------------------------ truncation

\* The scanner has ended: it returned, or it went on to the schema.
ScanEnded == pc \in {"returned", "fields"}

\* Bytes follow the last delimiter of the segment: the segment ends inside a
\* keyword or inside a value.
UnterminatedTail == Len(text) > 1 /\ text[Len(text)] # text[1]

\* C11: when the TEXT segment ends inside a keyword or inside a value, the
\* scanner ends with ErrInvalidText and without Metadata; it never goes on
\* with the pairs read so far.
C11_TruncationIsInvalidText ==
    (ScanEnded /\ UnterminatedTail) => (err = <<"ErrInvalidText">> /\ ~retM)

\* ---------------------------------------------------- Decoder: the header

ErrInvalidHeader == <<"ErrInvalidHeader">>

FCSVersions == {<<"F","C","S","2",".","0">>, <<"F","C","S","3",".","0">>,
                <<"F","C","S","3",".","1">>}

\* r.Read(buf) with len(buf) = n at position p of s: the bytes that are there,
\* up to n of them.
ReadBuf(s, p, n) == SubSeq(s, p + 1, IF p + n <= Len(s) THEN p + n ELSE Len(s))

\* Lines 262-275: the offsets from number i on, read at position p; acc holds
\* the offsets read so far.  n is the number of bytes read by the loop.
RECURSIVE ReadOffsets(_, _, _, _)
ReadOffsets(s, p, i, acc) ==
    IF i >= 6 THEN [offsets |-> acc, n |-> 0, err |-> NoErr]
    ELSE LET buf == ReadBuf(s, p, 8)
             a == Atoi(TrimSpace(buf))
         IN  IF Len(buf) # 8 \/ ~a.ok
             THEN [offsets |-> acc, n |-> Len(buf), err |-> ErrInvalidHeader]
             ELSE LET r == ReadOffsets(s, p + 8, i + 1, Append(acc, a.val))
                  IN  [r EXCEPT !.n = @ + 8]

\* Lines 219-285, decodeHeader on the stream s at position p: the header, the
\* number of bytes read and the error.
decodeHeader(s, p) ==
    LET version == ReadBuf(s, p, 6)
        spaces == ReadBuf(s, p + 6, 4)
        r == ReadOffsets(s, p + 10, 0, <<>>)
    IN  IF Len(version) # 6
        THEN [h |-> <<>>, n |-> Len(version), err |-> ErrInvalidHeader]
        ELSE IF version \notin FCSVersions
        THEN [h |-> <<>>, n |-> 6, err |-> ErrInvalidHeader]
        ELSE IF Len(spaces) # 4 \/ \E i \in 1..Len(spaces) : spaces[i] # " "
        THEN [h |-> <<>>, n |-> 6 + Len(spaces), err |-> ErrInvalidHeader]
        ELSE IF r.err # NoErr
        THEN [h |-> <<>>, n |-> 10 + r.n, err |-> r.err]
        ELSE [h |-> <<[FCSVersion |-> version,
                       TextStart |-> r.offsets[1], TextEnd |-> r.offsets[2],
                       DataStart |-> r.offsets[3], DataEnd |-> r.offsets[4],
                       AnalysisStart |-> r.offsets[5],
                       AnalysisEnd |-> r.offsets[6]]>>,
              n |-> 10 + r.n, err |-> NoErr]

\* io.CopyN(ioutil.Discard, r, n) at position p of s: n bytes are skipped, or
\* io.EOF when there are fewer; a count that is not positive skips nothing
\* and is no error.
CopyN(s, p, n) ==
    IF n <= 0 THEN [off |-> p, err |-> NoErr]
    ELSE IF p + n <= Len(s) THEN [off |-> p + n, err |-> NoErr]
    ELSE [off |-> Len(s), err |-> <<"EOF">>]

\* io.LimitReader(r, n) at position p of s: the bytes it will offer.
LimitReader(s, p, n) ==
    IF n <= 0 THEN <<>> ELSE ReadBuf(s, p, n)

\* A skip that takes TextStart as the number of the first byte of the TEXT
\* segment, counted from one.
TextSkipFromOne(h, n) == h.TextStart - 1 - n

\* Line 180: the number of bytes to skip before the TEXT segment, for the
\* header h of which n bytes were read.
TextSkip(h, n) == h.TextStart - n

\* Line 209: the number of bytes to skip before the DATA segment.
DataSkip(h) == h.DataStart - h.TextEnd - 1

\* The printable ASCII characters in the order of their codes, 32 to 126;
\* "grave" holds the place of code 96.
Printable ==
    <<" ","!","\"","#","$","%","&","'","(",")","*","+",",","-",".","/",
      "0","1","2","3","4","5","6","7","8","9",":",";","<","=",">","?",
      "@","A","B","C","D","E","F","G","H","I","J","K","L","M","N","O",
      "P","Q","R","S","T","U","V","W","X","Y","Z","[","\\","]","^","_",
      "grave","a","b","c","d","e","f","g","h","i","j","k","l","m","n","o",
      "p","q","r","s","t","u","v","w","x","y","z","{","|","}","~">>

Ascii(c) == 31 + (CHOOSE i \in 1..Len(Printable) : Printable[i] = c)

\* A byte of the stream as a byte of the DATA segment, a digit of base
\* ByteBase.
ByteValue(c) == Ascii(c) % ByteBase

\* ------------------------------------------- Decoder: the exported methods

\* dec.r has been read up to here: what the Decoder has taken, and what the
\* DATA decoder has taken from its limited reader since.
Consumed == dec.off + dpos

\* Lines 167-170 and 202-203: DecodeMetadata or Decode is called.  Decode
\* begins by calling DecodeMetadata, which returns dec.metadata when it is
\* set and reads the header otherwise.
Call(name) ==
    /\ pc = "idle"
    /\ op' = [name |-> name, start |-> dec.off, n |-> 0, at |-> dec.off]
    /\ IF dec.metadata # <<>>
       THEN /\ m' = dec.metadata[1].m
            /\ kv' = dec.metadata[1].kv
            /\ keywords' = dec.metadata[1].keywords
            /\ retM' = TRUE
            /\ pc' = IF name = "Decode" THEN "metadata" ELSE "returned"
       ELSE /\ m' = ZeroMetadata
            /\ kv' = <<>>
            /\ keywords' = <<>>
            /\ retM' = FALSE
            /\ pc' = "header"
    /\ text' = <<>> /\ pos' = 0 /\ delimiter' = "" /\ keyword' = <<>>
    /\ value' = <<>> /\ pi' = 0 /\ dataSeg' = <<>> /\ dpos' = 0
    /\ data' = <<>> /\ retData' = FALSE /\ err' = NoErr
    /\ UNCHANGED <<stream, dec, calls, hostOrder>>

\* Variables the steps of DecodeMetadata and Decode leave alone.
DecoderFrame ==
    UNCHANGED <<pos, delimiter, keyword, value, keywords, kv, m, pi, dpos,
                data, hostOrder, retData, stream, calls>>

\* Lines 173-177: read the header.
DecodeHeader ==
    /\ pc = "header"
    /\ LET r == decodeHeader(stream, dec.off)
       IN  /\ op' = [op EXCEPT !.n = r.n]
           /\ IF r.err # NoErr
              THEN /\ dec' = [dec EXCEPT !.off = @ + r.n]
                   /\ pc' = "returned"
                   /\ err' = r.err
              ELSE /\ dec' = [dec EXCEPT !.off = @ + r.n, !.header = r.h]
                   /\ pc' = "skip text"
                   /\ UNCHANGED err
    /\ UNCHANGED <<text, dataSeg, retM>>
    /\ DecoderFrame

\* Lines 180-187: skip to the TEXT segment and hand decodeText a reader
\* limited to its length.  The bufio.Reader of decodeText fills its buffer
\* from that reader, so the whole of a segment shorter than the buffer has
\* been taken from dec.r once the delimiter is read.
AdvanceToText ==
    /\ pc = "skip text"
    /\ LET h == dec.header[1]
           c == CopyN(stream, dec.off, TextSkip(h, op.n))
           seg == LimitReader(stream, c.off, h.TextEnd - h.TextStart + 1)
       IN  IF c.err # NoErr
           THEN /\ dec' = [dec EXCEPT !.off = c.off]
                /\ pc' = "returned"
                /\ err' = c.err
                /\ UNCHANGED text
           ELSE /\ text' = seg
                /\ dec' = [dec EXCEPT !.off = c.off + Len(seg)]
                /\ pc' = "delimiter"
                /\ UNCHANGED err
    /\ UNCHANGED <<dataSeg, retM, op>>
    /\ DecoderFrame

\* Lines 192-195: DecodeMetadata returns the metadata of decodeText.
ReturnMetadata ==
    /\ op.name = "DecodeMetadata"
    /\ DecodeMetadataReturn

\* Lines 208-215: skip to the DATA segment and hand decodeData a reader
\* limited to its length.
AdvanceToData ==
    /\ pc = "metadata"
    /\ op.name = "Decode"
    /\ LET h == dec.header[1]
           c == CopyN(stream, dec.off, DataSkip(h))
           seg == LimitReader(stream, c.off, h.DataEnd - h.DataStart + 1)
       IN  /\ dec' = [dec EXCEPT !.off = c.off]
           /\ IF c.err # NoErr
              THEN /\ pc' = "returned"
                   /\ err' = c.err
                   /\ retM' = FALSE
                   /\ UNCHANGED dataSeg
              ELSE /\ dataSeg' = [i \in 1..Len(seg) |-> ByteValue(seg[i])]
                   /\ pc' = "data"
                   /\ UNCHANGED <<err, retM>>
    /\ UNCHANGED <<text, op>>
    /\ DecoderFrame

\* The method returns to its caller, who may call again.
Return ==
    /\ pc \in {"returned", "decoded"}
    /\ op.name # "none"
    /\ calls' = Append(calls,
                  [name |-> op.name, retM |-> retM, m |-> m, kv |-> kv,
                   retData |-> retData, data |-> data, err |-> err,
                   from |-> op.start, to |-> Consumed, text |-> text,
                   header |-> dec.header, n |-> op.n])
    /\ dec' = [dec EXCEPT !.off = Consumed]
    /\ dpos' = 0
    /\ op' = NoCall
    /\ pc' = "idle"
    /\ UNCHANGED <<text, pos, delimiter, keyword, value, keywords, kv, m, pi,
                   dataSeg, data, hostOrder, retM, retData, err, stream>>

\* ------------------------------------------------ specification: Decoder

\* Most filler bytes between two segments of a file, and most calls made on
\* one Decoder.
MaxGap == 1
MaxCalls == 2

\* A number right-justified in a header field of eight bytes.
Field8(n) == [i \in 1..(8 - Len(Itoa(n))) |-> " "] \o Itoa(n)

Filler(n) == [i \in 1..n |-> "."]

\* The bytes of a header.
WriteHeader(version, ts, te, ds, de) ==
    version \o <<" ", " ", " ", " ">> \o Field8(ts) \o Field8(te)
            \o Field8(ds) \o Field8(de) \o Field8(0) \o Field8(0)

\* The bytes of a TEXT segment with delimiter "/" for a sequence of pairs.
RECURSIVE WritePairs(_)
WritePairs(pairs) ==
    IF pairs = <<>> THEN <<>>
    ELSE Head(pairs)[1] \o <<"/">> \o Head(pairs)[2] \o <<"/">>
         \o WritePairs(Tail(pairs))

\* A data set of one 8-bit parameter, with the given $PAR and $TOT.
FilePairs(par, tot) ==
    << <<K_BYTEORD, S_1234>>, <<K_DATATYPE, <<"I">>>>, <<K_MODE, <<"L">>>>,
       <<K_NEXTDATA, <<"0">>>>, <<K_PAR, par>>, <<K_TOT, tot>>,
       <<<<"$","P","1","B">>, <<"8">>>>, <<<<"$","P","1","E">>, <<"0",",","0">>>>,
       <<<<"$","P","1","N">>, <<"a">>>>, <<<<"$","P","1","R">>, <<"4">>>> >>

FileText(par, tot) == <<"/">> \o WritePairs(FilePairs(par, tot))

\* A file: header, filler, TEXT segment, filler, DATA segment, filler.  The
\* header holds the offsets of the segments counted from zero, each moved by
\* what dlt says.
File(version, txt, dat, gap1, gap2, tail, dlt) ==
    LET ts == 58 + gap1
        te == ts + Len(txt) - 1
        ds == te + 1 + gap2
        de == ds + Len(dat) - 1
    IN  WriteHeader(version, ts + dlt[1], te + dlt[2], ds + dlt[3], de + dlt[4])
        \o Filler(gap1) \o txt \o Filler(gap2) \o dat \o Filler(tail)

FCS30 == <<"F","C","S","3",".","0">>

GoodText == FileText(<<"1">>, <<"1">>)

NoShift == [i \in 1..4 |-> 0]

\* Files of one event whose header offsets are right or off by one; files
\* whose TEXT segment is truncated or holds a negative $PAR or $TOT; files
\* whose header is malformed or cut short.
Files ==
    {File(FCS30, GoodText, <<"2">>, g1, g2, tl, dlt) :
        g1 \in 0..MaxGap, g2 \in 0..MaxGap, tl \in 0..1,
        dlt \in [1..4 -> {0 - 1, 0}]}
    \cup {File(FCS30, txt, <<"2">>, 0, 0, 0, NoShift) :
            txt \in {FileText(<<"-","1">>, <<"1">>),
                     FileText(<<"1">>, <<"-","1">>),
                     GoodText \o <<"$","P","A">>}}
    \cup {File(<<"F","C","S","9",".","9">>, GoodText, <<"2">>, 0, 0, 0, NoShift),
          WriteHeader(FCS30, 58, 58, 59, 59),
          SubSeq(File(FCS30, GoodText, <<"2">>, 0, 0, 0, NoShift), 1, 30),
          WriteHeader(FCS30, 58, 57 + Len(GoodText), 0, 0) \o GoodText
            \o File(FCS30, GoodText, <<"2">>, 1, 1, 0, NoShift),
          FCS30 \o <<" ", " ", " ", "x">> \o Filler(48),
          FCS30 \o <<" ", " ", " ", " ">> \o Filler(48),
          <<>>}

InitDecoder ==
    /\ stream \in Files
    /\ dec = NewDecoder
    /\ op = NoCall
    /\ calls = <<>>
    /\ text = <<>>
    /\ pos = 0
    /\ delimiter = ""
    /\ keyword = <<>>
    /\ value = <<>>
    /\ keywords = <<>>
    /\ kv = <<>>
    /\ m = ZeroMetadata
    /\ pi = 0
    /\ dataSeg = <<>>
    /\ dpos = 0
    /\ data = <<>>
    /\ hostOrder = "unknown"
    /\ pc = "idle"
    /\ retM = FALSE
    /\ retData = FALSE
    /\ err = NoErr

CallAny ==
    /\ Len(calls) < MaxCalls
    /\ \E name \in {"DecodeMetadata", "Decode"} : Call(name)

NextDecoder ==
    \/ CallAny \/ DecodeHeader \/ AdvanceToText
    \/ ScanDelimiter \/ ScanKeyword \/ ScanValue \/ StorePair \/ ScanRemaining
    \/ ParseFields \/ AllocParameters \/ ParseParameter
    \/ NormalizeByteOrder \/ CombineDateTime \/ ValidateRequired
    \/ ReturnMetadata \/ AdvanceToData
    \/ DataModeCheck \/ DataAlloc \/ DecodeIntData \/ ApplyTransform
    \/ DeferredCheck \/ Return

SpecDecoder == InitDecoder /\ [][NextDecoder]_vars

\* ------------------------------------------------------- claims: Decoder

\* Bytes of the fixed part of the header: version, spaces and six offsets.
HeaderLen == 58

\* The segments of h are in order: TEXT, then DATA, neither of them empty.
Ordered(h) ==
    /\ h.TextStart <= h.TextEnd
    /\ h.TextEnd < h.DataStart
    /\ h.DataStart <= h.DataEnd

\* Call number i was a Decode that returned the matrix and a nil error.
DecodeSucceeded(i) ==
    /\ calls[i].name = "Decode"
    /\ calls[i].err = NoErr
    /\ calls[i].retM /\ calls[i].retData

\* C12: the header of every Decode that succeeded has its TEXT segment after
\* the header bytes and its offsets in the order TextStart <= TextEnd <
\* DataStart <= DataEnd; a header that breaks the order does not lead to a
\* successful Decode.
C12_HeaderOrdering ==
    \A i \in 1..Len(calls) :
        DecodeSucceeded(i) =>
            /\ calls[i].header # <<>>
            /\ Ordered(calls[i].header[1])
            /\ calls[i].header[1].TextStart >= HeaderLen

\* A method is running on a header whose TEXT segment begins at or after
\* byte lo and whose offsets are in order.
RunningOn(lo) ==
    /\ op.name # "none"
    /\ pc \notin {"header", "idle"}
    /\ dec.header # <<>>
    /\ lo <= dec.header[1].TextStart
    /\ Ordered(dec.header[1])

\* Positions at which decodeText has been handed its limited reader, and
\* positions at which decodeData has.
DataStages == {"data", "alloc data", "dispatch", "transform", "deferred",
               "decoded"}
TextStages == {"delimiter", "keyword", "value", "store", "remaining",
               "fields", "alloc", "parameter", "byteorder", "datetime",
               "validate",
               "metadata"} \cup DataStages

\* The bytes a to b of the stream, counted from one, that exist.
StreamBytes(a, b) == SubSeq(stream, a, IF b <= Len(stream) THEN b ELSE Len(stream))

\* C13 as stated, offsets counted from one: the TEXT scanner is offered the
\* bytes TextStart..TextEnd of the stream, the DATA decoder the bytes
\* DataStart..DataEnd, and nothing beyond byte DataEnd is consumed.
C13_OffsetsFromOne ==
    RunningOn(HeaderLen + 1) =>
        LET h == dec.header[1]
        IN  /\ pc \in TextStages =>
                  /\ Len(text) = h.TextEnd - h.TextStart + 1
                  /\ text = StreamBytes(h.TextStart, h.TextEnd)
            /\ pc \in DataStages =>
                  /\ Len(dataSeg) = h.DataEnd - h.DataStart + 1
                  /\ dataSeg = [i \in 1..Len(dataSeg) |->
                                  ByteValue(stream[h.DataStart + i - 1])]
            /\ Consumed <= h.DataEnd

\* C13, offsets counted from zero from the first byte of the header (op.at,
\* the start of the stream on a new Decoder): for a header with 58 <=
\* TextStart <= TextEnd < DataStart <= DataEnd, the TEXT scanner is offered
\* the bytes TextStart..TextEnd that the stream holds, the DATA decoder the
\* bytes DataStart..DataEnd that it holds, and no byte after byte DataEnd is
\* consumed.
C13_OffsetsFromZero ==
    RunningOn(HeaderLen) =>
        LET h == dec.header[1]
            seg == StreamBytes(op.at + h.DataStart + 1, op.at + h.DataEnd + 1)
        IN  /\ pc \in TextStages =>
                  text = StreamBytes(op.at + h.TextStart + 1,
                                     op.at + h.TextEnd + 1)
            /\ pc \in DataStages =>
                  dataSeg = [i \in 1..Len(seg) |-> ByteValue(seg[i])]
            /\ Consumed <= op.at + h.DataEnd + 1

\* Decode has read a one-byte DATA segment that filler bytes separate from
\* the TEXT segment and the TEXT segment from the header.
C13_Witness ==
    /\ RunningOn(HeaderLen + 1)
    /\ pc = "decoded" /\ retData /\ err = NoErr
    /\ dec.header[1].DataStart > dec.header[1].TextEnd + 1
    /\ Len(dataSeg) = 1 /\ dpos = 1

\* C14: once DecodeMetadata has returned a nil error, a later DecodeMetadata
\* on the same Decoder returns the same Metadata with a nil error and reads
\* nothing from the stream, a later Decode returns that Metadata and a
\* matrix, and neither reads a header again.
C14_MetadataCached ==
    \A i, j \in 1..Len(calls) :
        (i < j /\ calls[i].name = "DecodeMetadata" /\ calls[i].err = NoErr) =>
            /\ calls[j].err = NoErr
            /\ calls[j].retM
            /\ calls[j].m = calls[i].m /\ calls[j].kv = calls[i].kv
            /\ calls[j].n = 0
            /\ calls[j].name = "DecodeMetadata" => calls[j].to = calls[j].from
            /\ calls[j].name = "Decode" => calls[j].retData

\* C15: DecodeMetadata and Decode always return to the caller; no file makes
\* them panic, a negative $PAR or $TOT included.
C15_NeverPanics == pc # "panicked"

\* ---------------------------------------------- specification: date, time

\* What a dictionary may hold for $DATE: nothing, the empty string, dates
\* (one that no calendar has, and the first day of year 1), a time of day.
DateValues ==
    {Absent, <<>>,
     <<"0","1","-","F","e","b","-","2","0","2","0">>,
     <<"3","1","-","D","e","c","-","1","9","9","9">>,
     <<"3","0","-","F","e","b","-","2","0","2","0">>,
     <<"0","1","-","J","a","n","-","0","0","0","1">>,
     <<"1","2",":","0","0",":","0","0">>}

\* What a dictionary may hold for $BTIM and for $ETIM: nothing, the empty
\* string, times of day with and without fraction, times in sixtieths of a
\* second, a date with a time, values that are no time.
ClockValues ==
    {Absent, <<>>,
     <<"2","3",":","5","9",":","5","9">>,
     <<"0","0",":","0","0",":","0","0">>,
     <<"0","8",":","3","0",":","0","0">>,
     <<"0","8",":","3","0",":","0","0",".","5","0">>,
     <<"0",":","0",":","0",":","0">>,
     <<"8",":","3","0",":","0",":","3","0">>,
     <<"x">>,
     <<"0","1","-","F","e","b","-","2","0","2","0"," ","0","8",":","3","0",":","0","0">>,
     <<"2","4",":","0","0",":","0","0">>}

TimeDictionaries ==
    {MkKV({<<K_BYTEORD, S_1234>>, <<K_DATATYPE, <<"I">>>>, <<K_MODE, <<"L">>>>,
           <<K_NEXTDATA, <<"0">>>>, <<K_PAR, <<"0">>>>, <<K_TOT, <<"0">>>>,
           <<K_DATE, d>>, <<K_BTIM, b>>, <<K_ETIM, e>>}) :
        d \in DateValues, b \in ClockValues, e \in ClockValues}

InitTime ==
    /\ kv \in TimeDictionaries
    /\ text = <<>>
    /\ pos = 0
    /\ delimiter = "/"
    /\ keyword = <<>>
    /\ value = <<>>
    /\ keywords = <<>>
    /\ m = ZeroMetadata
    /\ pi = 0
    /\ dataSeg = <<>>
    /\ dpos = 0
    /\ data = <<>>
    /\ hostOrder = "LittleEndian"
    /\ pc = "fields"
    /\ retM = TRUE
    /\ retData = FALSE
    /\ err = NoErr
    /\ NoDecoder

NextTime ==
    \/ ParseFields \/ AllocParameters \/ ParseParameter
    \/ NormalizeByteOrder \/ CombineDateTime
    \/ ValidateRequired \/ DecodeMetadataReturn

SpecTime == InitTime /\ [][NextTime]_vars

\* --------------------------------------------------- claims: date, time

Present(k) == k \in DOMAIN kv

\* C16: the step that adds the date changes BeginTime only when $DATE and
\* $BTIM are present and EndTime only when $DATE and $ETIM are present; with
\* $DATE and $BTIM present and $ETIM absent EndTime stays the zero time; with
\* all three present EndTime is not before BeginTime afterwards.
C16_DateTimeFrame ==
    [][pc = "datetime" =>
          /\ m'.BeginTime # m.BeginTime => (Present(K_DATE) /\ Present(K_BTIM))
          /\ m'.EndTime # m.EndTime => (Present(K_DATE) /\ Present(K_ETIM))
          /\ (Present(K_DATE) /\ Present(K_BTIM) /\ ~Present(K_ETIM)) =>
                m'.EndTime = ZeroTime
          /\ (Present(K_DATE) /\ Present(K_BTIM) /\ Present(K_ETIM)) =>
                ~Before(m'.EndTime, m'.BeginTime)
      ]_vars

====
